---- MODULE Spec2Model ----
(***************************************************************************)
(* Model of nash_experiment.py: the checkpoint-driven self-play training   *)
(* pipeline (training_phase), the evaluation of the frozen population      *)
(* (compute_optimality_metrics) and the persistence of the results         *)
(* (save_results), run by __main__ once per (scheme, agent) configuration. *)
(*                                                                         *)
(* Agents are objects on a heap, referred to by their index.  An agent's   *)
(* learned state is the log of the training segments it went through.      *)
(* regym's functions are outside the repository; they are modelled by what *)
(* their call sites rely on, and whether self_play_training trains its     *)
(* argument in place or returns a new trained agent is left open           *)
(* (in_place), since the source does not decide it.                        *)
(***************************************************************************)
EXTENDS Integers, Sequences, FiniteSets, TLC

\* ---------------------------------------------------------------- bounds
\* longest checkpoint list given to the run
MaxLen == 3
\* largest checkpoint boundary (training iteration)
MaxIter == 3

\* ---------------------------------------------------------------- inputs
\* names of the self-play schemes and of the agents of config.yaml
SchemeNames == <<"naive", "fullhistory">>
AgentNames == <<"ppo", "a2c">>
\* experiment_config['experiment_id']
experiment_id == "exp"

NumAgents == Len(AgentNames)
NumConfigs == Len(SchemeNames) * NumAgents
Configs == 1..NumConfigs
\* the nested loops of __main__: scheme outer, agent inner
SchemeOf(c) == ((c - 1) \div NumAgents) + 1
AgentOf(c) == ((c - 1) % NumAgents) + 1

VARIABLES
  checkpoint_at_iterations, \* the list __main__ hands to every experiment
  in_place,     \* self_play_training trains its argument and returns it
  heap,         \* agent objects: [name, training, log]
  fs,           \* files: path -> content
  cfg,          \* configuration __main__'s loops are at
  pc,           \* position inside the program
  frame         \* locals of each configuration's experiment call

vars == <<checkpoint_at_iterations, in_place, heap, fs, cfg, pc, frame>>

\* ------------------------------------------------------------- helpers
Range(s) == {s[i] : i \in 1..Len(s)}

Min(a, b) == IF a <= b THEN a ELSE b

SeqsUpTo(S, n) == UNION {[1..k -> S] : k \in 0..n}

RECURSIVE Insert(_, _)
Insert(x, s) ==
  IF s = <<>> THEN <<x>>
  ELSE IF x < Head(s) THEN <<x>> \o s
  ELSE <<Head(s)>> \o Insert(x, Tail(s))

\* sorted(checkpoint_at_iterations): ascending, duplicates kept
RECURSIVE sorted(_)
sorted(s) == IF s = <<>> THEN <<>> ELSE Insert(Head(s), sorted(Tail(s)))

\* a valid schedule: non-empty, strictly ascending (hence no duplicates)
ValidSchedule(s) ==
  /\ Len(s) >= 1
  /\ \A i \in 1..(Len(s) - 1) : s[i] < s[i + 1]

\* ------------------------------------------------------------- agents
\* agent.clone(training=t)
CloneTraining(a, t) == [a EXCEPT !.training = t]

\* agent.clone(): the training mode is kept
Clone(a) == a

\* __main__: training_agent = agent.clone(training=True); the new object goes
\* on the heap and its reference is Len(heap) + 1
MainHeap(h, agent) == Append(h, CloneTraining(h[agent], TRUE))
\* faulty variant: training_agent = agent: the configuration trains the shared agent
MainTrainingAgentShared(h, agent) == agent
MainTrainingAgent(h, agent) == Len(h) + 1

\* path = f'{base_path}/{sp_scheme.name}-{agent.name}'
ConfigPath(base, sp_name, agent_name) ==
  base \o "/" \o sp_name \o "-" \o agent_name

PathOf(c) == ConfigPath(experiment_id, SchemeNames[SchemeOf(c)], AgentNames[AgentOf(c)])

\* ------------------------------------------------------ training_phase
\* next_training_iterations = target_iteration - completed_iterations
NextTrainingIterations(target_iteration, completed_iterations) ==
  target_iteration - completed_iterations

\* faulty variant: completed_iterations = next_training_iterations
CompletedAfterAssigned(completed_iterations, next_training_iterations) ==
  next_training_iterations
\* completed_iterations += next_training_iterations
CompletedAfter(completed_iterations, next_training_iterations) ==
  completed_iterations + next_training_iterations

\* save_path=f'{trained_policy_save_directory}/{target_iteration}_iterations.pt'
PolicySavePath(dir, target_iteration) ==
  dir \o "/" \o ToString(target_iteration) \o "_iterations.pt"

\* regym's self_play_training, on the menagerie: the scheme's curator admits
\* the agent trained in this segment (naive keeps the latest one only)
SelfPlayMenagerie(menagerie, scheme, iteration, target_episodes) ==
  IF target_episodes <= 0 THEN menagerie
  ELSE IF scheme = "naive" THEN <<iteration + target_episodes>>
  ELSE Append(menagerie, iteration + target_episodes)

\* regym's self_play_training, on the agent: the trained agent's state
Trained(a, target_episodes) == [a EXCEPT !.log = Append(@, target_episodes)]

\* heap after self_play_training(training_agent=ref, target_episodes=n)
SelfPlayHeap(h, ref, n) ==
  IF in_place THEN [h EXCEPT ![ref] = Trained(h[ref], n)]
  ELSE Append(h, Trained(h[ref], n))

\* the agent self_play_training returns
SelfPlayAgent(h, ref) == IF in_place THEN ref ELSE Len(h) + 1

\* train_for_given_iterations: return menagerie, training_agent, trajectories
ReturnedAgent(training_agent, sp_trained_agent) == training_agent

\* agents_to_benchmark += [trained_agent.clone()]: the heap and the reference
BenchmarkHeap(h, trained_agent) == Append(h, Clone(h[trained_agent]))
\* faulty variant: agents_to_benchmark += [trained_agent]: no copy is taken
BenchmarkAgentAliased(h, trained_agent) == trained_agent
BenchmarkAgent(h, trained_agent) == Len(h) + 1
\* faulty variant: agents_to_benchmark = [snapshot]: the earlier snapshots are lost
AgentsToBenchmarkReplaced(agents_to_benchmark, snapshot) == <<snapshot>>
AgentsToBenchmarkAfter(agents_to_benchmark, snapshot) ==
  Append(agents_to_benchmark, snapshot)

\* save_trained_policy: AgentHook(trained_agent.clone(training=False), save_path)
PolicyFile(h, trained_agent) == CloneTraining(h[trained_agent], FALSE)

\* ------------------------------------------ compute_optimality_metrics
\* regym's compute_winrate_matrix_metagame: one row and one column per
\* population member; entry (i, j) is the outcome of the matchup of i and j
WinrateMatrix(population) ==
  [i \in 1..Len(population) |->
     [j \in 1..Len(population) |-> <<population[i], population[j]>>]]

\* winrate_matrix[:i, :i]
TopLeft(m, i) ==
  [r \in 1..Min(i, Len(m)) |-> SubSeq(m[r], 1, Min(i, Len(m[r])))]

\* faulty variant: [winrate_matrix[:i] for i in ...]: the columns are not cut
WinrateSubmatricesRowsOnly(m) == [i \in 1..Len(m) |-> SubSeq(m, 1, i)]
\* [winrate_matrix[:i, :i] for i in range(1, len(winrate_matrix) + 1)]
WinrateSubmatrices(m) == [i \in 1..Len(m) |-> TopLeft(m, i)]

\* regym's compute_nash_averaging: (maxent_nash, nash_averaging); maxent_nash
\* has one weight per row of the matrix (here the uniform one, "1/k")
NashAveraging(m) ==
  << [i \in 1..Len(m) |-> "1/" \o ToString(Len(m))], "nash_averaging" >>

EvolutionMaxentNash(submatrices) ==
  [k \in 1..Len(submatrices) |-> NashAveraging(submatrices[k])]

\* ---------------------------------------------------------- save_results
\* d[k] = v on a python dict kept as a sequence of <<key, value>> in
\* insertion order: an existing key keeps its place and takes the new value
DictSet(d, k, v) ==
  IF \E i \in 1..Len(d) : d[i][1] = k
  THEN [i \in 1..Len(d) |-> IF d[i][1] = k THEN <<k, v>> ELSE d[i]]
  ELSE Append(d, <<k, v>>)

RECURSIVE DictOfZip(_, _, _)
DictOfZip(d, keys, values) ==
  IF keys = <<>> \/ values = <<>> THEN d
  ELSE DictOfZip(DictSet(d, Head(keys), Head(values)), Tail(keys), Tail(values))

\* faulty variant: {i: m for i, m in enumerate(winrate_submatrices)}
SubmatricesByPosition(checkpoints, submatrices) ==
  [i \in 1..Min(Len(checkpoints), Len(submatrices)) |-> <<i - 1, submatrices[i]>>]
\* {checkpoint: m for checkpoint, m in zip(checkpoint_at_iterations, winrate_submatrices)}
CheckpointsWinrateSubmatrices(checkpoints, submatrices) ==
  DictOfZip(<<>>, checkpoints, submatrices)

\* a row of the DataFrame: shorter rows are padded with NaN
PadRow(row, width) ==
  [j \in 1..width |-> IF j <= Len(row) THEN row[j] ELSE "nan"]

\* pd.DataFrame(maxent_nash_list, index=checkpoint_at_iterations,
\*              columns=list(range(len(checkpoint_at_iterations))))
NashProgression(evolution, checkpoints) ==
  [i \in 1..Len(evolution) |-> <<checkpoints[i], PadRow(evolution[i][1], Len(checkpoints))>>]

WinratePath(base) == base \o "/results" \o "/winrate_matrices.pickle"
NashPath(base) == base \o "/results" \o "/evolution_maxent_nash.csv"

\* open(path, 'wb') / to_csv(path): the file is created or replaced
WriteFile(f, path, content) ==
  [p \in (DOMAIN f) \cup {path} |-> IF p = path THEN content ELSE f[p]]

\* ---------------------------------------------------------------- state
NoFrame ==
  [started |-> FALSE, training_agent |-> 0, menagerie |-> <<>>,
   completed_iterations |-> 0, agents_to_benchmark |-> <<>>,
   todo |-> <<>>, target_iteration |-> 0, next_training_iterations |-> 0,
   trained_agent |-> 0, sp_trained_agent |-> 0, sp_menagerie |-> <<>>,
   segments |-> <<>>, frozen_at |-> <<>>,
   winrate_submatrices |-> <<>>, evolution |-> <<>>]

\* locals of training_phase when its loop starts
StartFrame(training_agent, checkpoints) ==
  [NoFrame EXCEPT !.started = TRUE,
                  !.training_agent = training_agent,
                  !.menagerie = <<>>,
                  !.completed_iterations = 0,
                  !.agents_to_benchmark = <<>>,
                  !.todo = sorted(checkpoints)]

Init ==
  /\ checkpoint_at_iterations \in SeqsUpTo(0..MaxIter, MaxLen)
  /\ in_place \in BOOLEAN
  /\ heap = [i \in 1..NumAgents |-> [name |-> AgentNames[i], training |-> FALSE, log |-> <<>>]]
  /\ fs = <<>>
  /\ cfg = 1
  /\ pc = "main"
  /\ frame = [c \in Configs |-> NoFrame]

Running == cfg \in Configs

\* __main__'s loop body up to the loop of training_phase
StartExperiment ==
  /\ pc = "main"
  /\ Running
  /\ heap' = MainHeap(heap, AgentOf(cfg))
  /\ frame' = [frame EXCEPT ![cfg] =
                 StartFrame(MainTrainingAgent(heap, AgentOf(cfg)), checkpoint_at_iterations)]
  /\ pc' = "loop"
  /\ UNCHANGED <<checkpoint_at_iterations, in_place, fs, cfg>>

\* one training segment: lines 108-115 with train_for_given_iterations
TrainSegment ==
  /\ pc = "loop"
  /\ frame[cfg].todo # <<>>
  /\ LET f == frame[cfg]
         target == Head(f.todo)
         delta == NextTrainingIterations(target, f.completed_iterations)
         sp_agent == SelfPlayAgent(heap, f.training_agent)
         sp_men == SelfPlayMenagerie(f.menagerie, SchemeNames[SchemeOf(cfg)],
                                     f.completed_iterations, delta)
     IN /\ heap' = SelfPlayHeap(heap, f.training_agent, delta)
        /\ frame' = [frame EXCEPT ![cfg] =
             [f EXCEPT !.target_iteration = target,
                       !.next_training_iterations = delta,
                       !.sp_trained_agent = sp_agent,
                       !.sp_menagerie = sp_men,
                       !.menagerie = sp_men,
                       !.trained_agent = ReturnedAgent(f.training_agent, sp_agent),
                       !.completed_iterations = CompletedAfter(f.completed_iterations, delta),
                       !.segments = Append(@, delta)]]
  /\ pc' = "save"
  /\ UNCHANGED <<checkpoint_at_iterations, in_place, fs, cfg>>

\* save_trained_policy
SaveTrainedPolicy ==
  /\ pc = "save"
  /\ LET f == frame[cfg]
     IN fs' = WriteFile(fs, PolicySavePath(PathOf(cfg), f.target_iteration),
                        PolicyFile(heap, f.trained_agent))
  /\ pc' = "clone"
  /\ UNCHANGED <<checkpoint_at_iterations, in_place, heap, cfg, frame>>

\* lines 120-121: the snapshot joins the population, the loop goes on
CloneForBenchmark ==
  /\ pc = "clone"
  /\ LET f == frame[cfg]
     IN /\ heap' = BenchmarkHeap(heap, f.trained_agent)
        /\ frame' = [frame EXCEPT ![cfg] =
             [f EXCEPT !.agents_to_benchmark =
                          AgentsToBenchmarkAfter(@, BenchmarkAgent(heap, f.trained_agent)),
                       !.frozen_at = Append(@, f.completed_iterations),
                       !.training_agent = f.trained_agent,
                       !.todo = Tail(@)]]
  /\ pc' = "loop"
  /\ UNCHANGED <<checkpoint_at_iterations, in_place, fs, cfg>>

\* the loop is over: training_phase returns agents_to_benchmark
TrainingDone ==
  /\ pc = "loop"
  /\ frame[cfg].todo = <<>>
  /\ pc' = "metrics"
  /\ UNCHANGED <<checkpoint_at_iterations, in_place, heap, fs, cfg, frame>>

\* the training engine raises inside a segment: the run is over
TrainingFailure ==
  /\ pc = "loop"
  /\ frame[cfg].todo # <<>>
  /\ pc' = "failed"
  /\ UNCHANGED <<checkpoint_at_iterations, in_place, heap, fs, cfg, frame>>

\* the run is interrupted at a checkpoint boundary
Cancel ==
  /\ pc = "loop"
  /\ pc' = "cancelled"
  /\ UNCHANGED <<checkpoint_at_iterations, in_place, heap, fs, cfg, frame>>

ComputeOptimalityMetrics ==
  /\ pc = "metrics"
  /\ LET f == frame[cfg]
         subs == WinrateSubmatrices(WinrateMatrix(f.agents_to_benchmark))
     IN frame' = [frame EXCEPT ![cfg] =
          [f EXCEPT !.winrate_submatrices = subs,
                    !.evolution = EvolutionMaxentNash(subs)]]
  /\ pc' = "save_winrate"
  /\ UNCHANGED <<checkpoint_at_iterations, in_place, heap, fs, cfg>>

SaveWinrateMatrices ==
  /\ pc = "save_winrate"
  /\ fs' = WriteFile(fs, WinratePath(PathOf(cfg)),
                     CheckpointsWinrateSubmatrices(checkpoint_at_iterations,
                                                   frame[cfg].winrate_submatrices))
  /\ pc' = "save_nash"
  /\ UNCHANGED <<checkpoint_at_iterations, in_place, heap, cfg, frame>>

\* save_evolution_maxent_nash_and_nash_averaging, then experiment returns
SaveEvolutionMaxentNash ==
  /\ pc = "save_nash"
  /\ frame[cfg].evolution # <<>>
  /\ fs' = WriteFile(fs, NashPath(PathOf(cfg)),
                     NashProgression(frame[cfg].evolution, checkpoint_at_iterations))
  /\ cfg' = cfg + 1
  /\ pc' = "main"
  /\ UNCHANGED <<checkpoint_at_iterations, in_place, heap, frame>>

\* zip(*[]) yields nothing to unpack into the two names: ValueError
SaveEvolutionUnpackError ==
  /\ pc = "save_nash"
  /\ frame[cfg].evolution = <<>>
  /\ pc' = "error"
  /\ UNCHANGED <<checkpoint_at_iterations, in_place, heap, fs, cfg, frame>>

Next ==
  \/ StartExperiment
  \/ TrainSegment
  \/ SaveTrainedPolicy
  \/ CloneForBenchmark
  \/ TrainingDone
  \/ TrainingFailure
  \/ Cancel
  \/ ComputeOptimalityMetrics
  \/ SaveWinrateMatrices
  \/ SaveEvolutionMaxentNash
  \/ SaveEvolutionUnpackError

Spec == Init /\ [][Next]_vars

\* ----------------------------------------------------------- properties
\* configurations whose training_phase has returned
TrainingCompleted(c) ==
  \/ c < cfg
  \/ c = cfg /\ pc \in {"metrics", "save_winrate", "save_nash", "error"}

\* configurations whose experiment has returned
ExperimentCompleted(c) == c \in Configs /\ c < cfg

\* boundaries whose snapshot file exists under configuration c's directory
PolicyFilesOf(c) ==
  {t \in 0..MaxIter : PolicySavePath(PathOf(c), t) \in DOMAIN fs}

IsSquare(m, k) == Len(m) = k /\ \A i \in 1..k : Len(m[i]) = k

\* the weights of a stored row: the slots that are not absent
StoredDistribution(row) == SelectSeq(row, LAMBDA x : x # "nan")

\* C1: for a valid checkpoint list of length m, a completed training_phase
\* has persisted exactly m snapshot files, one per boundary, and returns a
\* population of m distinct snapshots frozen at ascending iterations, the
\* k-th at boundary b_k.
C1_SnapshotPerBoundary ==
  \A c \in Configs :
    (TrainingCompleted(c) /\ ValidSchedule(checkpoint_at_iterations)) =>
      LET f == frame[c]
          m == Len(checkpoint_at_iterations)
      IN /\ PolicyFilesOf(c) = Range(checkpoint_at_iterations)
         /\ Cardinality(PolicyFilesOf(c)) = m
         /\ Len(f.agents_to_benchmark) = m
         /\ Cardinality(Range(f.agents_to_benchmark)) = m
         /\ f.frozen_at = checkpoint_at_iterations
         /\ \A i \in 1..(m - 1) : f.frozen_at[i] < f.frozen_at[i + 1]

C1_Witness ==
  /\ pc = "metrics"
  /\ checkpoint_at_iterations = <<0, 1, 3>>
  /\ Len(frame[cfg].agents_to_benchmark) = 3

\* C2 (as claimed): an empty, unsorted or duplicate checkpoint list is
\* rejected before anything runs: no training segment is run, no snapshot
\* is saved and no result is written, in any configuration.
C2_InvalidScheduleFailsFast ==
  ~ValidSchedule(checkpoint_at_iterations) =>
    /\ \A c \in Configs : frame[c].segments = <<>>
    /\ DOMAIN fs = {}

\* C3: compute_optimality_metrics yields one submatrix per population
\* member; the k-th is k-by-k and equals the top-left k-by-k block of the
\* (k+1)-th, and the last one is the full win-rate matrix.
C3_PrefixMonotonicity ==
  \A c \in Configs :
    (ExperimentCompleted(c) \/ (c = cfg /\ pc \in {"save_winrate", "save_nash", "error"})) =>
      LET subs == frame[c].winrate_submatrices
          pop == frame[c].agents_to_benchmark
          m == Len(pop)
      IN /\ Len(subs) = m
         /\ \A k \in 1..m : IsSquare(subs[k], k)
         /\ \A k \in 1..(m - 1) : \A i, j \in 1..k : subs[k][i][j] = subs[k + 1][i][j]
         /\ \A i, j \in 1..m : subs[m][i][j] = <<pop[i], pop[j]>>

C3_Witness ==
  /\ pc = "save_winrate"
  /\ Len(frame[cfg].winrate_submatrices) = 3
  /\ frame[cfg].winrate_submatrices[2] # frame[cfg].winrate_submatrices[3]

\* the checkpoint record of boundary b in configuration c's result store
HasSubmatrix(c, b) ==
  /\ WinratePath(PathOf(c)) \in DOMAIN fs
  /\ \E i \in 1..Len(fs[WinratePath(PathOf(c))]) : fs[WinratePath(PathOf(c))][i][1] = b
HasNashRow(c, b) ==
  /\ NashPath(PathOf(c)) \in DOMAIN fs
  /\ \E i \in 1..Len(fs[NashPath(PathOf(c))]) : fs[NashPath(PathOf(c))][i][1] = b

\* C4 (as claimed): when a run stops at a checkpoint boundary after k
\* boundaries, the records of those k boundaries are persisted, and no
\* record is partial (a submatrix without its Nash row or the reverse).
C4_CompletedCheckpointsPersisted ==
  pc \in {"failed", "cancelled"} =>
    /\ \A b \in Range(frame[cfg].frozen_at) : HasSubmatrix(cfg, b) /\ HasNashRow(cfg, b)
    /\ \A b \in 0..MaxIter : HasSubmatrix(cfg, b) <=> HasNashRow(cfg, b)

\* C5: after a completed run over a valid list b_1 < ... < b_m the result
\* store holds one record per boundary, in ascending order of iteration:
\* the k-th is keyed b_k, carries a k-by-k submatrix and a Nash
\* distribution of length k.
C5_OneRecordPerBoundary ==
  \A c \in Configs :
    (ExperimentCompleted(c) /\ ValidSchedule(checkpoint_at_iterations)) =>
      /\ WinratePath(PathOf(c)) \in DOMAIN fs
      /\ NashPath(PathOf(c)) \in DOMAIN fs
      /\ LET w == fs[WinratePath(PathOf(c))]
             n == fs[NashPath(PathOf(c))]
             m == Len(checkpoint_at_iterations)
         IN /\ Len(w) = m
            /\ Len(n) = m
            /\ \A k \in 1..m :
                 /\ w[k][1] = checkpoint_at_iterations[k]
                 /\ n[k][1] = checkpoint_at_iterations[k]
                 /\ IsSquare(w[k][2], k)
                 /\ Len(StoredDistribution(n[k][2])) = k
            /\ \A k \in 1..(m - 1) : w[k][1] < w[k + 1][1] /\ n[k][1] < n[k + 1][1]

C5_Witness ==
  /\ cfg = 2
  /\ pc = "main"
  /\ checkpoint_at_iterations = <<1, 2, 3>>
  /\ Len(fs[NashPath(PathOf(1))]) = 3

\* the files configuration c writes
FilesOf(c) ==
  {PolicySavePath(PathOf(c), t) : t \in 0..MaxIter}
    \cup {WinratePath(PathOf(c)), NashPath(PathOf(c))}

\* the agent objects configuration c holds: its training agent, the agent
\* its segments returned and its snapshots
AgentsOf(c) ==
  ({frame[c].training_agent, frame[c].trained_agent} \ {0})
    \cup Range(frame[c].agents_to_benchmark)

\* a step of the configuration at work leaves the file p as it is
FileUnchanged(p) ==
  /\ (p \in DOMAIN fs) <=> (p \in DOMAIN fs')
  /\ p \in DOMAIN fs => fs'[p] = fs[p]

Ascending(s) == \A i \in 1..(Len(s) - 1) : s[i] <= s[i + 1]

RECURSIVE Sum(_)
Sum(s) == IF s = <<>> THEN 0 ELSE Head(s) + Sum(Tail(s))

\* C7: for an ascending list of boundaries b, the i-th segment of
\* training_phase runs b_i - b_(i-1) iterations (b_0 = 0), which is not
\* negative; after it completed_iterations = b_i, and the lengths of the
\* segments run so far sum to the last processed boundary.
C7_SegmentLengths ==
  \A c \in Configs :
    (frame[c].started /\ Ascending(checkpoint_at_iterations)) =>
      LET f == frame[c]
          b == checkpoint_at_iterations
          n == Len(f.segments)
      IN /\ n <= Len(b)
         /\ \A i \in 1..n :
              /\ f.segments[i] = b[i] - (IF i = 1 THEN 0 ELSE b[i - 1])
              /\ f.segments[i] >= 0
         /\ f.completed_iterations = (IF n = 0 THEN 0 ELSE b[n])
         /\ Sum(f.segments) = f.completed_iterations

C7_Witness ==
  /\ pc = "save"
  /\ checkpoint_at_iterations = <<1, 1, 3>>
  /\ frame[cfg].segments = <<1, 0, 2>>
  /\ frame[cfg].completed_iterations = 3

\* C8 (as claimed): the segment of the next checkpoint starts from the agent
\* the previous segment's training returned and from the menagerie it
\* returned.
C8_NextSegmentStartsFromTrainedAgent ==
  \A c \in Configs :
    (frame[c].started /\ frame[c].agents_to_benchmark # <<>>) =>
      /\ frame[c].training_agent = frame[c].sp_trained_agent
      /\ frame[c].menagerie = frame[c].sp_menagerie

\* C9: a snapshot is a copy of the agent training_phase holds after the
\* boundary's segment, taken once that segment has run; it is an object of
\* its own, distinct from the training agent and the other snapshots; and
\* no later step changes a snapshot already in the population.
C9_SnapshotsNeverMutated ==
  /\ [](\A c \in Configs :
          LET f == frame[c]
          IN /\ f.training_agent \notin Range(f.agents_to_benchmark)
             /\ f.trained_agent \notin Range(f.agents_to_benchmark)
             /\ Cardinality(Range(f.agents_to_benchmark)) = Len(f.agents_to_benchmark))
  /\ [][\A c \in Configs :
          LET f == frame[c]
              g == frame'[c]
          IN /\ \A i \in 1..Len(f.agents_to_benchmark) :
                  /\ i <= Len(g.agents_to_benchmark)
                  /\ g.agents_to_benchmark[i] = f.agents_to_benchmark[i]
                  /\ heap'[f.agents_to_benchmark[i]] = heap[f.agents_to_benchmark[i]]
             /\ Len(g.agents_to_benchmark) # Len(f.agents_to_benchmark) =>
                  /\ Len(g.agents_to_benchmark) = Len(f.agents_to_benchmark) + 1
                  /\ Len(f.segments) = Len(g.agents_to_benchmark)
                  /\ g.agents_to_benchmark[Len(g.agents_to_benchmark)] \notin 1..Len(heap)
                  /\ heap'[g.agents_to_benchmark[Len(g.agents_to_benchmark)]] = heap[f.trained_agent]
       ]_vars

C9_Witness ==
  /\ pc = "save"
  /\ in_place
  /\ Len(frame[cfg].agents_to_benchmark) = 2
  /\ heap[frame[cfg].training_agent].log = <<1, 1, 1>>
  /\ heap[frame[cfg].agents_to_benchmark[1]].log = <<1>>
  /\ heap[frame[cfg].agents_to_benchmark[2]].log = <<1, 1>>

\* C10 (as claimed): for every list training_phase accepts, the k-th stored
\* submatrix and the k-th stored Nash row are keyed by the iteration at
\* which the k-th snapshot, the newest of that prefix, was frozen, and
\* there are as many stored keys as snapshots.
C10_KeysAreFreezeIterations ==
  \A c \in Configs :
    (ExperimentCompleted(c)) =>
      LET w == fs[WinratePath(PathOf(c))]
          n == fs[NashPath(PathOf(c))]
          f == frame[c]
      IN /\ Len(w) = Len(f.agents_to_benchmark)
         /\ Len(n) = Len(f.agents_to_benchmark)
         /\ \A k \in 1..Len(w) :
              /\ w[k][1] = f.frozen_at[Len(w[k][2])]
         /\ \A k \in 1..Len(n) :
              /\ n[k][1] = f.frozen_at[Len(StoredDistribution(n[k][2]))]

====
